---- MODULE Spec2Model ----
(***************************************************************************)
(* Model of the outline parsing core of Genie-Pdf-Djvu-Outliner            *)
(* (outline_parser_replit.py): is_beautified, beautify_outline,            *)
(* normalize_outline, parse_clean_outline, convert_to_number and           *)
(* parse_outline; and of the two text functions of the GUI                 *)
(* (genie_outliner.py): parse_djvused_outline and adjust_page_numbers.     *)
(*                                                                         *)
(* A text is a sequence of one-character strings.  The regular             *)
(* expressions of the source are modelled by operators that compute the    *)
(* leftmost match of the pattern on such a sequence.                       *)
(***************************************************************************)
EXTENDS Integers, Sequences, FiniteSets, TLC

VARIABLES
    text,                     \* the argument of the call under study
    pc,                       \* position of the running call
    b1, b2,                   \* beautify_outline(text), beautify_outline(b1)
    f1, f2,                   \* parse_outline(text), parse_outline(b1)
    lines, idx,               \* the list a loop iterates over, lines consumed
    clean_outline,            \* the argument of parse_clean_outline
    clean_lines,              \* normalize_outline locals
    current_item,
    current_indent,
    last_line_was_terminated,
    processed_lines,
    nodes,                    \* parse_clean_outline: all dicts, nodes[1] = root
    stack,                    \* parse_clean_outline: indices into nodes
    last_page_number,
    err,                      \* TRUE once an exception has been raised
    probe,                    \* is_beautified(text)
    number,                   \* convert_to_number(text)
    written,                  \* the value the numeral text was written for, or -1
    calls,                    \* calls of parse_outline made so far
    prev_text, prev_forest,   \* argument and result of the call before
    djvu_i, djvu_level,       \* parse_djvused_outline: the locals i and level
    result,                   \* parse_djvused_outline: result
    entries,                  \* the bookmarks text was written for
    adjustment,               \* adjust_page_numbers: amount * direction
    adjusted_text             \* adjust_page_numbers: the text put back

vars == <<text, pc, b1, b2, f1, f2, lines, idx, clean_outline, clean_lines, current_item,
          current_indent, last_line_was_terminated, processed_lines,
          nodes, stack, last_page_number, err,
          probe, number, written, calls, prev_text, prev_forest,
          djvu_i, djvu_level, result, entries, adjustment, adjusted_text>>

\* the variables of the functions of the GUI
gui == <<djvu_i, djvu_level, result, entries, adjustment, adjusted_text>>

\* the variables of the other calls
others == <<probe, number, written, calls, prev_text, prev_forest, gui>>

----------------------------------------------------------------------------
(* Bounds of the model *)

MaxTok == 5          \* tokens per text in the beautifier specification
MaxLines == 4        \* lines per text in the tree-builder specification
MaxNormLines == 3    \* lines per text in the normalizer specification

----------------------------------------------------------------------------
(* Characters and character classes (Python's re and str methods) *)

SP == " "
TAB == "\t"
NL == "\n"

Whitespace == {SP, TAB, NL}
Digits == {"0", "1", "2", "3", "4", "5", "6", "7", "8", "9"}
RomanChars == {"I", "V", "X", "L", "C", "D", "M"}
UpperChars == {"A", "B", "C", "D", "E", "F", "G", "H", "I", "J", "K", "L", "M",
               "N", "O", "P", "Q", "R", "S", "T", "U", "V", "W", "X", "Y", "Z"}
SepChars == {".", "-", SP}

None == <<"None">>

Range(s) == {s[i] : i \in 1..Len(s)}

Min(a, b) == IF a < b THEN a ELSE b
Max(a, b) == IF a > b THEN a ELSE b

\* number of leading characters of s that belong to S
LeadRun(s, S) ==
    IF \A i \in 1..Len(s) : s[i] \in S THEN Len(s)
    ELSE (CHOOSE i \in 1..Len(s) : s[i] \notin S /\ \A j \in 1..(i-1) : s[j] \in S) - 1

\* number of trailing characters of s that belong to S
TrailRun(s, S) ==
    IF \A i \in 1..Len(s) : s[i] \in S THEN Len(s)
    ELSE Len(s) - (CHOOSE i \in 1..Len(s) : s[i] \notin S /\ \A j \in (i+1)..Len(s) : s[j] \in S)

Prefix(s, n) == SubSeq(s, 1, n)
Suffix(s, n) == SubSeq(s, Len(s) - n + 1, Len(s))
DropFirst(s, n) == SubSeq(s, n + 1, Len(s))
DropLast(s, n) == SubSeq(s, 1, Len(s) - n)

Spaces(n) == [i \in 1..n |-> SP]

\* str.lstrip(), str.rstrip(), str.strip()
LStrip(s) == DropFirst(s, LeadRun(s, Whitespace))
RStrip(s) == DropLast(s, TrailRun(s, Whitespace))
Strip(s) == LStrip(RStrip(s))

\* len(line) - len(line.lstrip())
Indentation(line) == Len(line) - Len(LStrip(line))

\* str.splitlines(): break at each newline, no empty last piece
RECURSIVE SplitLines(_)
SplitLines(s) ==
    IF s = <<>> THEN <<>>
    ELSE LET k == LeadRun(s, Range(s) \ {NL})
         IN  IF k = Len(s) THEN <<s>>
             ELSE <<Prefix(s, k)>> \o SplitLines(DropFirst(s, k + 1))

\* '\n'.join(list)
RECURSIVE JoinLines(_)
JoinLines(ls) ==
    IF ls = <<>> THEN <<>>
    ELSE IF Len(ls) = 1 THEN ls[1]
    ELSE ls[1] \o <<NL>> \o JoinLines(Tail(ls))

\* str.expandtabs(4): a tab advances to the next multiple of 4 columns,
\* the column restarts after a newline
RECURSIVE ExpandFrom(_, _)
ExpandFrom(s, col) ==
    IF s = <<>> THEN <<>>
    ELSE IF Head(s) = TAB THEN Spaces(4 - (col % 4)) \o ExpandFrom(Tail(s), 0)
    ELSE IF Head(s) = NL THEN <<NL>> \o ExpandFrom(Tail(s), 0)
    ELSE <<Head(s)>> \o ExpandFrom(Tail(s), col + 1)

expandtabs(s) == ExpandFrom(s, 0)

----------------------------------------------------------------------------
(* is_beautified *)

\* re.search(r'\d+$', content)
EndsWithDigits(content) == TrailRun(content, Digits) >= 1

\* re.match(r'^.*[^\s]\s[0-9]+$', content)
OneSpaceBeforeNumber(content) ==
    LET k == TrailRun(content, Digits)
        n == Len(content)
    IN  /\ k >= 1
        /\ n >= k + 2
        /\ content[n - k] \in Whitespace
        /\ content[n - k - 1] \notin Whitespace

\* re.search(r'\s{2,}\d+$', content)
ManySpacesBeforeNumber(content) ==
    LET k == TrailRun(content, Digits)
    IN  k >= 1 /\ TrailRun(DropLast(content, k), Whitespace) >= 2

\* the body of the for loop without the check of the indentation
LineIsBeautifiedAnyIndent(line) ==
    \/ Strip(line) = <<>>
    \/ EndsWithDigits(Strip(line)) =>
           /\ OneSpaceBeforeNumber(Strip(line))
           /\ ~ManySpacesBeforeNumber(Strip(line))

\* the body of the for loop of is_beautified: TRUE when the line passes
LineIsBeautified(line) ==
    \/ Strip(line) = <<>>
    \/ /\ Indentation(line) % 4 = 0
       /\ EndsWithDigits(Strip(line)) =>
              /\ OneSpaceBeforeNumber(Strip(line))
              /\ ~ManySpacesBeforeNumber(Strip(line))

is_beautified(outline) ==
    LET ls == SplitLines(outline)
    IN  IF ls = <<>> THEN FALSE
        ELSE \A i \in 1..Len(ls) : LineIsBeautified(ls[i])

----------------------------------------------------------------------------
(* beautify_outline *)

\* re.split(r'\s+(\d+)$', content, 1): <<title, page_num>> when the split
\* gives three parts, <<>> otherwise
SplitPage(content) ==
    LET k == TrailRun(content, Digits)
        w == TrailRun(DropLast(content, k), Whitespace)
    IN  IF k >= 1 /\ w >= 1
        THEN <<DropLast(content, k + w), Suffix(content, k)>>
        ELSE <<>>

\* the content emitted as it is
BeautifyContentKeep(content) == content

\* the content with the spacing before a Roman token collapsed as well
BeautifyContentRoman(content) ==
    LET parts == SplitPage(content)
        r == TrailRun(content, RomanChars)
        w == TrailRun(DropLast(content, r), Whitespace)
    IN  IF parts # <<>> THEN RStrip(parts[1]) \o <<SP>> \o parts[2]
        ELSE IF r >= 1 /\ w >= 1
             THEN DropLast(content, r + w) \o <<SP>> \o Suffix(content, r)
        ELSE content

\* the content a non-blank line is emitted with
BeautifyContent(content) ==
    LET parts == SplitPage(content)
    IN  IF parts # <<>> THEN RStrip(parts[1]) \o <<SP>> \o parts[2]
        ELSE content

\* BeautifyStep without the skipping of the empty lines
BeautifyStepKeepBlank(st, line) ==
    IF Strip(line) = <<>>
    THEN [st EXCEPT !.beautified = Append(st.beautified, <<>>)]
    ELSE LET indent_level == Indentation(line) \div 4
             sep == IF indent_level = 0 /\ st.last_indent_level # -1
                    THEN <<(<<>>)>> ELSE <<>>
         IN  [beautified |-> st.beautified \o sep \o
                   <<Spaces(indent_level * 4) \o BeautifyContent(Strip(line))>>,
              last_indent_level |-> indent_level]

\* one iteration of the for loop; st = [beautified, last_indent_level]
BeautifyStep(st, line) ==
    IF Strip(line) = <<>> THEN st
    ELSE LET indent_level == Indentation(line) \div 4
             sep == IF indent_level = 0 /\ st.last_indent_level # -1
                    THEN <<(<<>>)>> ELSE <<>>
         IN  [beautified |-> st.beautified \o sep \o
                   <<Spaces(indent_level * 4) \o BeautifyContent(Strip(line))>>,
              last_indent_level |-> indent_level]

RECURSIVE BeautifyLoop(_, _)
BeautifyLoop(st, ls) ==
    IF ls = <<>> THEN st ELSE BeautifyLoop(BeautifyStep(st, Head(ls)), Tail(ls))

\* the for loop on its own, whatever is_beautified says
BeautifyAlways(outline) ==
    JoinLines(BeautifyLoop([beautified |-> <<>>, last_indent_level |-> -1],
                           SplitLines(outline)).beautified)

beautify_outline(outline) ==
    IF is_beautified(outline) THEN outline
    ELSE JoinLines(BeautifyLoop([beautified |-> <<>>, last_indent_level |-> -1],
                                SplitLines(outline)).beautified)

----------------------------------------------------------------------------
(* normalize_outline *)

\* length of the trailing numeral (\d+|[IVXLCDM]+) of s, 0 when there is none
NumeralRun(s) ==
    IF TrailRun(s, Digits) >= 1 THEN TrailRun(s, Digits) ELSE TrailRun(s, RomanChars)

\* leftmost match of r'([\.\- ]{3,}|\(|\s)(\d+|[IVXLCDM]+)\s*$' in content:
\* found, start = number of characters before the match, num = group 2
NoMatch == [found |-> FALSE, start |-> 0, num |-> <<>>]

PageToken(content) ==
    LET body == RStrip(content)
        n == NumeralRun(body)
        before == DropLast(body, n)
        m == TrailRun(before, SepChars)
    IN  IF n = 0 \/ before = <<>> THEN NoMatch
        ELSE IF m >= 3
             THEN [found |-> TRUE, start |-> Len(before) - m, num |-> Suffix(body, n)]
        ELSE IF before[Len(before)] \in Whitespace \cup {"("}
             THEN [found |-> TRUE, start |-> Len(before) - 1, num |-> Suffix(body, n)]
        ELSE NoMatch

has_page_number(content) == PageToken(content).found

\* re.match(r'^(\d+\.|[A-Z]\.|\-|\*)\s', content)
starts_with_number(content) ==
    LET d == LeadRun(content, Digits)
        n == Len(content)
    IN  \/ d >= 1 /\ n >= d + 2 /\ content[d + 1] = "." /\ content[d + 2] \in Whitespace
        \/ n >= 3 /\ content[1] \in UpperChars /\ content[2] = "."
                  /\ content[3] \in Whitespace
        \/ n >= 2 /\ content[1] \in {"-", "*"} /\ content[2] \in Whitespace

\* lines = [line.rstrip() for line in raw.expandtabs(4).splitlines() if line.strip()]
RECURSIVE NonBlankRStripped(_)
NonBlankRStripped(ls) ==
    IF ls = <<>> THEN <<>>
    ELSE IF Strip(Head(ls)) = <<>> THEN NonBlankRStripped(Tail(ls))
    ELSE <<RStrip(Head(ls))>> \o NonBlankRStripped(Tail(ls))

NormLines(raw_outline) == NonBlankRStripped(SplitLines(expandtabs(raw_outline)))

\* is_continuation without the test of the list marker
is_continuation_unmarked(st, content) ==
    /\ ~st.last_line_was_terminated
    /\ ~has_page_number(content)
    /\ st.current_item # None

\* is_continuation without the test of the line's own page number
is_continuation_paged(st, content) ==
    /\ ~st.last_line_was_terminated
    /\ ~starts_with_number(content)
    /\ st.current_item # None

\* a line of digits only is never a continuation
is_continuation_worded(st, content) ==
    /\ ~st.last_line_was_terminated
    /\ ~has_page_number(content)
    /\ ~starts_with_number(content)
    /\ st.current_item # None
    /\ content \notin Seq(Digits)

is_continuation(st, content) ==
    /\ ~st.last_line_was_terminated
    /\ ~has_page_number(content)
    /\ ~starts_with_number(content)
    /\ st.current_item # None

\* one iteration of the first for loop;
\* st = [clean_lines, current_item, current_indent, last_line_was_terminated]
NormStep(st, line) ==
    LET indent == Indentation(line)
        content == Strip(line)
    IN  IF is_continuation(st, content)
        THEN [st EXCEPT !.current_item = st.current_item \o <<SP>> \o content]
        ELSE [clean_lines |->
                  IF st.current_item # None
                  THEN Append(st.clean_lines,
                              Spaces(4 * st.current_indent) \o st.current_item)
                  ELSE st.clean_lines,
              current_item |-> content,
              current_indent |-> indent \div 4,
              last_line_was_terminated |-> has_page_number(content)]

NormInit == [clean_lines |-> <<>>, current_item |-> None, current_indent |-> 0,
             last_line_was_terminated |-> TRUE]

\* "Add the last item"
NormFlush(st) ==
    IF st.current_item # None
    THEN Append(st.clean_lines, Spaces(4 * st.current_indent) \o st.current_item)
    ELSE st.clean_lines

\* re.sub(r'([\.\- ]{3,}|\(|\s)(\d+|[IVXLCDM]+)\s*$', r' \2', content)
SubPageToken(content) ==
    LET t == PageToken(content)
    IN  IF ~t.found THEN content ELSE Prefix(content, t.start) \o <<SP>> \o t.num

\* re.sub(r'\s+(\d+|[IVXLCDM]+)\s*$', r' \1', content)
SubSpaceToken(content) ==
    LET body == RStrip(content)
        n == NumeralRun(body)
        w == TrailRun(DropLast(body, n), Whitespace)
    IN  IF n >= 1 /\ w >= 1
        THEN DropLast(body, n + w) \o <<SP>> \o Suffix(body, n)
        ELSE content

\* Standardize without the first substitution
StandardizeSpacesOnly(line) ==
    Spaces(Indentation(line)) \o SubSpaceToken(LStrip(line))

\* one iteration of the second for loop
Standardize(line) ==
    Spaces(Indentation(line)) \o SubSpaceToken(SubPageToken(LStrip(line)))

RECURSIVE NormLoop(_, _)
NormLoop(st, ls) ==
    IF ls = <<>> THEN st ELSE NormLoop(NormStep(st, Head(ls)), Tail(ls))

normalize_outline(raw_outline) ==
    LET clean == NormFlush(NormLoop(NormInit, NormLines(raw_outline)))
    IN  JoinLines([i \in 1..Len(clean) |-> Standardize(clean[i])])

----------------------------------------------------------------------------
(* convert_to_number *)

DigitValue(c) ==
    CASE c = "0" -> 0 [] c = "1" -> 1 [] c = "2" -> 2 [] c = "3" -> 3 [] c = "4" -> 4
      [] c = "5" -> 5 [] c = "6" -> 6 [] c = "7" -> 7 [] c = "8" -> 8 [] c = "9" -> 9

\* int(page_str) for a string of decimal digits
RECURSIVE ParseInt(_)
ParseInt(s) ==
    IF s = <<>> THEN 0 ELSE 10 * ParseInt(DropLast(s, 1)) + DigitValue(s[Len(s)])

\* no conversion to upper case
UpperKeepCase(c) == c

\* str.upper() on one character (the letters of roman_map)
Upper(c) ==
    CASE c = "i" -> "I" [] c = "v" -> "V" [] c = "x" -> "X" [] c = "l" -> "L"
      [] c = "c" -> "C" [] c = "d" -> "D" [] c = "m" -> "M" [] OTHER -> c

\* roman_map.get(char, 0)
RomanValue(c) ==
    CASE c = "I" -> 1 [] c = "V" -> 5 [] c = "X" -> 10 [] c = "L" -> 50
      [] c = "C" -> 100 [] c = "D" -> 500 [] c = "M" -> 1000 [] OTHER -> 0

\* the for loop comparing with the largest value read so far
RECURSIVE RomanSumRunningMax(_, _)
RomanSumRunningMax(s, k) ==
    IF k > Len(s) THEN 0
    ELSE LET value == RomanValue(Upper(s[k]))
             seen == {RomanValue(Upper(s[j])) : j \in (k + 1)..Len(s)} \cup {0}
         IN  RomanSumRunningMax(s, k + 1)
                 + (IF \E v \in seen : value < v THEN -value ELSE value)

\* the for loop adding the value of every character
RECURSIVE RomanSumAdditive(_, _)
RomanSumAdditive(s, k) ==
    IF k > Len(s) THEN 0
    ELSE RomanSumAdditive(s, k + 1) + RomanValue(Upper(s[k]))

\* the for loop over reversed(page_str.upper()): result after the characters
\* s[k..Len(s)] have been read, prev_value being the value of s[k]
RECURSIVE RomanSum(_, _)
RomanSum(s, k) ==
    IF k > Len(s) THEN 0
    ELSE LET value == RomanValue(Upper(s[k]))
             prev_value == IF k = Len(s) THEN 0 ELSE RomanValue(Upper(s[k + 1]))
         IN  RomanSum(s, k + 1) + (IF value < prev_value THEN -value ELSE value)

convert_to_number(page_str) ==
    IF page_str = <<>> THEN 0
    ELSE IF \A i \in 1..Len(page_str) : page_str[i] \in Digits THEN ParseInt(page_str)
    ELSE Max(RomanSum(page_str, 1), 0)

----------------------------------------------------------------------------
(* parse_clean_outline *)

\* lines = [line for line in clean_outline.splitlines() if line.strip()]
RECURSIVE NonBlank(_)
NonBlank(ls) ==
    IF ls = <<>> THEN <<>>
    ELSE IF Strip(Head(ls)) = <<>> THEN NonBlank(Tail(ls))
    ELSE <<Head(ls)>> \o NonBlank(Tail(ls))

ParseLines(outline) == NonBlank(SplitLines(outline))

\* re.search(r'\s+(\d+|[IVXLCDM]+)$', content):
\* found, start = page_match.start(), num = page_match.group(1)
PageMatch(content) ==
    LET n == NumeralRun(content)
        w == TrailRun(DropLast(content, n), Whitespace)
    IN  IF n >= 1 /\ w >= 1
        THEN [found |-> TRUE, start |-> Len(content) - n - w, num |-> Suffix(content, n)]
        ELSE NoMatch

\* the level of the synthetic root
RootLevel == -1

\* a root at the level of the top-level entries
RootAtLevelZero == [title |-> <<"R", "O", "O", "T">>, level |-> RootLevel + 1,
                    page_number |-> 0, children |-> <<>>]

root == [title |-> <<"R", "O", "O", "T">>, level |-> RootLevel, page_number |-> 0,
         children |-> <<>>]

\* no page number before the first line
ParseInitNoPage == [nodes |-> <<root>>, stack |-> <<1>>, last_page_number |-> -1,
                    err |-> FALSE]

\* the last page number of the call before is kept
ParseInitKeepPage == [nodes |-> <<root>>, stack |-> <<1>>,
                      last_page_number |-> last_page_number, err |-> FALSE]

ParseInit == [nodes |-> <<root>>, stack |-> <<1>>, last_page_number |-> 0,
              err |-> FALSE]

\* PopTo with "<" for "<="
RECURSIVE PopToStrict(_, _, _)
PopToStrict(ns, stk, level) ==
    IF stk = <<>> THEN <<>>
    ELSE IF level < ns[stk[Len(stk)]].level
         THEN PopToStrict(ns, DropLast(stk, 1), level)
    ELSE stk

\* PopTo with "if" for "while"
PopOnce(ns, stk, level) ==
    IF stk = <<>> THEN <<>>
    ELSE IF level <= ns[stk[Len(stk)]].level THEN DropLast(stk, 1)
    ELSE stk

\* while level <= stack[-1]["level"]: stack.pop()
\* the empty result stands for the IndexError of stack[-1] on an empty list
RECURSIVE PopTo(_, _, _)
PopTo(ns, stk, level) ==
    IF stk = <<>> THEN <<>>
    ELSE IF level <= ns[stk[Len(stk)]].level THEN PopTo(ns, DropLast(stk, 1), level)
    ELSE stk

\* AddChild inserting at the front
AddChildFirst(children, id) == <<id>> \o children

\* stack[-1]["children"].append(new_item)
AddChild(children, id) == Append(children, id)

\* InheritedPage taking the page of the parent, stk being the unwound stack
InheritedPageOfTop(st, stk) == st.nodes[stk[Len(stk)]].page_number

\* page_number = last_page_number, for a line without a page match
InheritedPage(st, stk) == st.last_page_number

\* the title trimmed whether the line has a page match or not
TitleTrimmed(content, page_match) ==
    IF page_match.found THEN Strip(Prefix(content, page_match.start))
    ELSE Strip(content)

\* title = content[:page_match.start()].strip() with a page match,
\* title = content without
Title(content, page_match) ==
    IF page_match.found THEN Strip(Prefix(content, page_match.start))
    ELSE content

\* one iteration of the for loop; st = [nodes, stack, last_page_number, err]
ParseStep(st, line) ==
    LET indent == Indentation(line)
        level == indent \div 4
        content == LStrip(line)
        page_match == PageMatch(content)
        stk == PopTo(st.nodes, st.stack, level)
        title == Title(content, page_match)
        page_number == IF page_match.found THEN convert_to_number(page_match.num)
                       ELSE InheritedPage(st, stk)
        new_item == [title |-> title, level |-> level, page_number |-> page_number,
                     children |-> <<>>]
        id == Len(st.nodes) + 1
    IN  IF st.err THEN st
        ELSE IF stk = <<>>
             THEN [st EXCEPT !.err = TRUE, !.stack = <<>>]
        ELSE [nodes |-> Append([st.nodes EXCEPT ![stk[Len(stk)]].children =
                                    AddChild(@, id)], new_item),
              stack |-> Append(stk, id),
              last_page_number |-> IF page_match.found THEN page_number
                                   ELSE st.last_page_number,
              err |-> FALSE]

RECURSIVE ParseLoop(_, _)
ParseLoop(st, ls) ==
    IF ls = <<>> THEN st ELSE ParseLoop(ParseStep(st, Head(ls)), Tail(ls))

\* the nested dict of node k
RECURSIVE Tree(_, _)
Tree(ns, k) ==
    [title |-> ns[k].title, level |-> ns[k].level, page_number |-> ns[k].page_number,
     children |-> [j \in 1..Len(ns[k].children) |-> Tree(ns, ns[k].children[j])]]

\* return root["children"]
Forest(ns) == Tree(ns, 1).children

parse_clean_outline(outline) ==
    Forest(ParseLoop(ParseInit, ParseLines(outline)).nodes)

parse_outline(t) == parse_clean_outline(normalize_outline(t))

----------------------------------------------------------------------------
(* The inputs the calls are made with *)

RECURSIVE Flatten(_)
Flatten(ss) == IF ss = <<>> THEN <<>> ELSE Head(ss) \o Flatten(Tail(ss))

\* every text made of at most n pieces of Tok
TokenTexts(Tok, n) == {Flatten(ts) : ts \in UNION {[1..k -> Tok] : k \in 0..n}}

\* every text of at most n lines of LineSet
LineTexts(LineSet, n) == {JoinLines(ls) : ls \in UNION {[1..k -> LineSet] : k \in 0..n}}

BeautifyTokens == {<<SP>>, Spaces(4), <<TAB>>, <<NL>>, <<"a">>, <<"1">>, <<".">>, <<"I">>}
BeautifyTexts == TokenTexts(BeautifyTokens, MaxTok)

ExampleOutline ==
    <<"P","R","E","F","A","C","E"," ","1", NL,
      "C","H","A","P","T","E","R"," ","1","."," ",
      "I","N","T","R","O","D","U","C","T","I","O","N"," ","2", NL,
      " "," "," "," ","1",".","1"," ","B","a","c","k","g","r","o","u","n","d"," ","3">>

CleanLineSet ==
    {<<"a">>, <<"b", SP, "2">>, <<"c", SP, SP, "I", "V">>,
     Spaces(2) \o <<"b", SP, "2">>,
     Spaces(4) \o <<"a">>, Spaces(4) \o <<"b", SP, "2">>,
     Spaces(8) \o <<"a">>, Spaces(8) \o <<"c", SP, SP, "I", "V">>,
     Spaces(12) \o <<"a">>,
     <<"a", SP>>, <<"1", ".", SP, "b", SP, SP, "2">>,
     <<>>}
CleanTexts == LineTexts(CleanLineSet, MaxLines) \cup {ExampleOutline}

RawIndents == {Spaces(4), <<TAB>>}
RawContents == {<<"a">>, <<"b", SP, "2">>, <<"c", ".", ".", ".", "I">>, <<"-", SP, "d">>,
                <<"-", "d">>, <<"1", ".", SP, "e">>, <<"1", ".", "2", SP, "e">>,
                <<"A", ".", SP, "f">>, <<"7">>, <<"(", "3">>, <<"g", SP, "(", "3">>, <<"I", "V">>}
RawLineSet == RawContents
                 \cup {i \o c : i \in RawIndents, c \in {<<"a">>, <<"b", SP, "2">>}}
                 \cup {<<>>}
SomeTitleOutline ==
    <<"S","o","m","e"," ","T","i","t","l","e", NL,
      " "," "," "," ","t","h","a","t"," ","w","r","a","p","s"," ","7">>
PrefaceLower == <<"P","r","e","f","a","c","e"," ","i","v">>
PrefaceUpper == <<"P","r","e","f","a","c","e"," ","I","V">>

RawTexts == LineTexts(RawLineSet, MaxNormLines)
               \cup {SomeTitleOutline, PrefaceLower, PrefaceUpper}

\* the texts of a sequence of calls
MaxCalls == 3
CallTexts ==
    {<<>>, <<"a">>, <<"b", SP, "2">>,
     JoinLines(<< <<"a">>, <<"b", SP, "2">> >>),
     JoinLines(<< <<"b", SP, "2">>, Spaces(4) \o <<"a">> >>),
     JoinLines(<< <<"c", ".", ".", ".", "I">>, <<"-", SP, "d">> >>),
     JoinLines(<< <<TAB, "a">>, <<"b", SP, "2">> >>),
     SomeTitleOutline}

\* numerals: the decimal and the canonical Roman writing of a number
MaxNumber == 2000
MaxLetters == 3

DigitChars == <<"0", "1", "2", "3", "4", "5", "6", "7", "8", "9">>

RECURSIVE Decimal(_)
Decimal(n) ==
    IF n < 10 THEN <<DigitChars[n + 1]>>
    ELSE Decimal(n \div 10) \o <<DigitChars[(n % 10) + 1]>>

RomanOnes == << <<>>, <<"I">>, <<"I","I">>, <<"I","I","I">>, <<"I","V">>, <<"V">>,
               <<"V","I">>, <<"V","I","I">>, <<"V","I","I","I">>, <<"I","X">> >>
RomanTens == << <<>>, <<"X">>, <<"X","X">>, <<"X","X","X">>, <<"X","L">>, <<"L">>,
               <<"L","X">>, <<"L","X","X">>, <<"L","X","X","X">>, <<"X","C">> >>
RomanHundreds == << <<>>, <<"C">>, <<"C","C">>, <<"C","C","C">>, <<"C","D">>, <<"D">>,
                   <<"D","C">>, <<"D","C","C">>, <<"D","C","C","C">>, <<"C","M">> >>
RomanThousands == << <<>>, <<"M">>, <<"M","M">>, <<"M","M","M">> >>

\* the Roman numeral of n in canonical subtractive notation
ToRoman(n) ==
    RomanThousands[(n \div 1000) + 1] \o RomanHundreds[((n \div 100) % 10) + 1]
        \o RomanTens[((n \div 10) % 10) + 1] \o RomanOnes[(n % 10) + 1]

CanonicalRomans ==
    {m \o h \o t \o o : m \in Range(RomanThousands), h \in Range(RomanHundreds),
                         t \in Range(RomanTens), o \in Range(RomanOnes)} \ {<<>>}

Lower(c) ==
    CASE c = "I" -> "i" [] c = "V" -> "v" [] c = "X" -> "x" [] c = "L" -> "l"
      [] c = "C" -> "c" [] c = "D" -> "d" [] c = "M" -> "m" [] OTHER -> c

LowerCase(s) == [i \in 1..Len(s) |-> Lower(s[i])]
UpperCase(s) == [i \in 1..Len(s) |-> Upper(s[i])]

\* the ways a number is written: decimal, decimal after a zero, Roman in
\* upper and in lower case
Writings(n) ==
    {Decimal(n), <<"0">> \o Decimal(n), ToRoman(n), LowerCase(ToRoman(n))}

\* letter strings that are no Roman numeral
Letters == {"I", "V", "X", "M", "i", "a", "z"}
MalformedNumerals ==
    {s \in UNION {[1..k -> Letters] : k \in 1..MaxLetters} :
        UpperCase(s) \notin CanonicalRomans}

----------------------------------------------------------------------------
(* parse_djvused_outline (genie_outliner.py) *)

QUOTE == "\""
HASH == "#"
Bookmarks == <<"(", "b", "o", "o", "k", "m", "a", "r", "k", "s">>

\* s[a:b] with 0 <= a
Slice(s, a, b) == SubSeq(s, a + 1, Min(b, Len(s)))

\* while i < len(outline_str) and outline_str[i] != '"': i += 1, from i = a
ClosingQuote(s, a) ==
    IF \E j \in a..(Len(s) - 1) : s[j + 1] = QUOTE
    THEN CHOOSE j \in a..(Len(s) - 1) :
             s[j + 1] = QUOTE /\ \A k \in a..(j - 1) : s[k + 1] # QUOTE
    ELSE Max(a, Len(s))

\* the positions of w where r'"#(\d+)"' matches
DjvuPageStarts(w) ==
    {p \in 1..Len(w) :
        /\ w[p] = QUOTE
        /\ p + 1 <= Len(w)
        /\ w[p + 1] = HASH
        /\ LeadRun(DropFirst(w, p + 1), Digits) >= 1
        /\ p + 2 + LeadRun(DropFirst(w, p + 1), Digits) <= Len(w)
        /\ w[p + 2 + LeadRun(DropFirst(w, p + 1), Digits)] = QUOTE}

\* re.search(r'"#(\d+)"', w): page = group(1), length = len(group(0))
DjvuPageMatch(w) ==
    IF DjvuPageStarts(w) = {} THEN [found |-> FALSE, page |-> <<>>, length |-> 0]
    ELSE LET p == CHOOSE q \in DjvuPageStarts(w) : \A r \in DjvuPageStarts(w) : q <= r
             d == LeadRun(DropFirst(w, p + 1), Digits)
         IN  [found |-> TRUE, page |-> SubSeq(w, p + 2, p + 1 + d), length |-> d + 3]

\* the '"' branch: i is the position of the opening quote
DjvuTitle(s, st) ==
    LET title_start == st.i + 1
        close == ClosingQuote(s, title_start)
        title == Slice(s, title_start, close)
        page_match == DjvuPageMatch(Slice(s, close, close + 10))
    IN  [i |-> IF page_match.found THEN close + page_match.length ELSE close + 1,
         level |-> st.level,
         result |-> st.result \o Spaces(4 * st.level) \o title \o <<SP>>
                        \o page_match.page \o <<NL>>]

\* one iteration of the while loop, the level not held at 0
DjvuIterNoFloor(s, st) ==
    IF s[st.i + 1] = "("
    THEN IF Slice(s, st.i, st.i + 10) = Bookmarks
         THEN [st EXCEPT !.i = st.i + 10]
         ELSE [st EXCEPT !.level = st.level + 1, !.i = st.i + 1]
    ELSE IF s[st.i + 1] = ")"
    THEN [st EXCEPT !.level = st.level - 1, !.i = st.i + 1]
    ELSE IF s[st.i + 1] = QUOTE
    THEN DjvuTitle(s, st)
    ELSE [st EXCEPT !.i = st.i + 1]

\* one iteration of the while loop; st = [i, level, result]
DjvuIter(s, st) ==
    IF s[st.i + 1] = "("
    THEN IF Slice(s, st.i, st.i + 10) = Bookmarks
         THEN [st EXCEPT !.i = st.i + 10]
         ELSE [st EXCEPT !.level = st.level + 1, !.i = st.i + 1]
    ELSE IF s[st.i + 1] = ")"
    THEN [st EXCEPT !.level = Max(0, st.level - 1), !.i = st.i + 1]
    ELSE IF s[st.i + 1] = QUOTE
    THEN DjvuTitle(s, st)
    ELSE [st EXCEPT !.i = st.i + 1]

\* the early return of parse_djvused_outline
DjvuEmpty(s) ==
    \/ s = <<>>
    \/ Strip(s) = <<"(", ")">>
    \/ Strip(s) = Bookmarks \o <<")">>

RECURSIVE DjvuLoop(_, _)
DjvuLoop(s, st) ==
    IF st.i < Len(s) THEN DjvuLoop(s, DjvuIter(s, st)) ELSE st

parse_djvused_outline(outline_str) ==
    IF DjvuEmpty(outline_str) THEN <<>>
    ELSE DjvuLoop(outline_str, [i |-> 0, level |-> 0, result |-> <<>>]).result

\* the djvused output of a list of bookmarks in pre-order, each with its
\* title, its page and its depth (1 for a top-level bookmark)
MaxEntries == 2
MaxDjvuTok == 4

EntryTitles == {<<"A">>, <<"B", SP, "c">>}
EntryPages == {<<"1">>, <<"1", "2">>}
EntrySet == [title : EntryTitles, page : EntryPages, depth : 1..MaxEntries]

ValidDepths(es) ==
    \A k \in 1..Len(es) :
        IF k = 1 THEN es[k].depth = 1 ELSE es[k].depth <= es[k - 1].depth + 1

EntryLists ==
    {es \in UNION {[1..k -> EntrySet] : k \in 0..MaxEntries} : ValidDepths(es)}

Parens(n) == [j \in 1..n |-> ")"]

EntryText(e) ==
    <<"(", QUOTE>> \o e.title \o <<QUOTE, SP, QUOTE, HASH>> \o e.page \o <<QUOTE>>

RECURSIVE EntriesText(_, _)
EntriesText(es, k) ==
    IF k > Len(es) THEN (IF es = <<>> THEN <<>> ELSE Parens(es[Len(es)].depth))
    ELSE (IF k > 1 THEN Parens(es[k - 1].depth - es[k].depth + 1) ELSE <<>>)
             \o <<SP>> \o EntryText(es[k]) \o EntriesText(es, k + 1)

BookmarksText(es) == Bookmarks \o EntriesText(es, 1) \o <<")">>

DjvuTokens ==
    {Bookmarks, <<"(", QUOTE, "A", QUOTE, SP, QUOTE, HASH, "1", QUOTE>>, <<"(">>, <<")">>,
     <<QUOTE>>, <<"A">>, <<SP>>, <<QUOTE, HASH, "1", QUOTE>>}
DjvuTexts == TokenTexts(DjvuTokens, MaxDjvuTok)

----------------------------------------------------------------------------
(* adjust_page_numbers (genie_outliner.py) *)

\* str.split('\n'): one more piece than there are newlines
RECURSIVE SplitNewline(_)
SplitNewline(s) ==
    LET k == LeadRun(s, Range(s) \ {NL})
    IN  IF k = Len(s) THEN <<s>>
        ELSE <<Prefix(s, k)>> \o SplitNewline(DropFirst(s, k + 1))

\* re.search(r'(\s+)(\d+)(\s*)$', line): the lengths of the three groups
AdjustMatch(line) ==
    LET after == TrailRun(line, Whitespace)
        digits == TrailRun(DropLast(line, after), Digits)
        before == TrailRun(DropLast(line, after + digits), Whitespace)
    IN  [found |-> digits >= 1 /\ before >= 1,
         before |-> before, digits |-> digits, after |-> after]

\* one iteration of the for loop, the page held at 0 or more
AdjustLineFloorZero(line, adj) ==
    LET m == AdjustMatch(line)
        page_num == SubSeq(line, Len(line) - m.after - m.digits + 1, Len(line) - m.after)
        new_page == Max(0, ParseInt(page_num) + adj)
    IN  IF m.found
        THEN DropLast(line, m.after + m.digits) \o Decimal(new_page) \o Suffix(line, m.after)
        ELSE line

\* one iteration of the for loop: the adjusted line
AdjustLine(line, adj) ==
    LET m == AdjustMatch(line)
        page_num == SubSeq(line, Len(line) - m.after - m.digits + 1, Len(line) - m.after)
        new_page == Max(1, ParseInt(page_num) + adj)
    IN  IF m.found
        THEN DropLast(line, m.after + m.digits) \o Decimal(new_page) \o Suffix(line, m.after)
        ELSE line

\* adjusted_text for the text of the widget and the adjustment
AdjustedText(widget_text, adj) ==
    LET outline_text == Strip(widget_text)
        ls == SplitNewline(outline_text)
    IN  JoinLines([k \in 1..Len(ls) |-> AdjustLine(ls[k], adj)])

MaxAmount == 6
MaxAdjustLines == 2
AdjustLineSet ==
    {<<"a", SP, "5">>, <<"a", SP, SP, "1", "2", SP>>, <<"a">>, <<"b", SP, "0", "0", "7">>,
     <<"5">>, <<"a", SP, "1", SP, "2">>, <<SP, "3">>, <<>>}
AdjustTexts == LineTexts(AdjustLineSet, MaxAdjustLines)

----------------------------------------------------------------------------
(* The calls as state machines *)

\* nothing has been computed yet
NoResult ==
    /\ b1 = <<>> /\ b2 = <<>> /\ f1 = <<>> /\ f2 = <<>>
    /\ lines = <<>> /\ idx = 0
    /\ clean_lines = <<>> /\ current_item = None /\ current_indent = 0
    /\ last_line_was_terminated = TRUE /\ processed_lines = <<>>
    /\ nodes = <<>> /\ stack = <<>> /\ last_page_number = 0
    /\ err = FALSE
    /\ probe = FALSE /\ number = 0
    /\ calls = 1 /\ prev_text = <<>> /\ prev_forest = <<>>
    /\ djvu_i = 0 /\ djvu_level = 0 /\ result = <<>>
    /\ adjustment = 0 /\ adjusted_text = <<>>

\* text was not written for a list of bookmarks
NoEntries == <<[title |-> <<>>, page |-> <<>>, depth |-> 0]>>

Idle == NoResult /\ written = -1 /\ entries = NoEntries

\* a call of beautify_outline(text), then of beautify_outline and parse_outline
\* on its result
InitBeautify ==
    /\ text \in BeautifyTexts
    /\ clean_outline = <<>>
    /\ pc = "start"
    /\ Idle

\* a call of convert_to_number(text): text is a writing of the number
\* written, or a malformed numeral (written = -1)
InitConvert ==
    /\ \/ written \in 0..MaxNumber /\ text \in Writings(written)
       \/ written = -1 /\ text \in MalformedNumerals
    /\ clean_outline = <<>>
    /\ pc = "numeral"
    /\ NoResult
    /\ entries = NoEntries

\* a call of parse_clean_outline(clean_outline)
InitParseClean ==
    /\ clean_outline \in CleanTexts
    /\ text = clean_outline
    /\ pc = "clean"
    /\ Idle

\* a call of parse_outline(text)
InitParse ==
    /\ text \in RawTexts
    /\ clean_outline = <<>>
    /\ pc = "raw"
    /\ Idle

Beautify ==
    /\ pc = "start"
    /\ b1' = beautify_outline(text)
    /\ pc' = "beautified"
    /\ UNCHANGED others
    /\ UNCHANGED <<text, b2, f1, f2, lines, idx, clean_outline, clean_lines,
                   current_item, current_indent, last_line_was_terminated,
                   processed_lines, nodes, stack, last_page_number, err>>

\* a call of is_beautified(text) on its own
Probe ==
    /\ pc = "start"
    /\ probe' = is_beautified(text)
    /\ pc' = "probed"
    /\ UNCHANGED <<number, written, calls, prev_text, prev_forest, gui>>
    /\ UNCHANGED <<text, b1, b2, f1, f2, lines, idx, clean_outline, clean_lines,
                   current_item, current_indent, last_line_was_terminated,
                   processed_lines, nodes, stack, last_page_number, err>>

\* a sequence of calls of parse_outline
InitCalls ==
    /\ text \in CallTexts
    /\ clean_outline = <<>>
    /\ pc = "raw"
    /\ Idle

\* the next call of parse_outline, after the call before has returned; what
\* the call before has left is still there
CallAgain ==
    /\ pc = "done"
    /\ calls < MaxCalls
    /\ calls' = calls + 1
    /\ prev_text' = text
    /\ prev_forest' = f1
    /\ text' \in CallTexts
    /\ pc' = "raw"
    /\ UNCHANGED <<probe, number, written, gui>>
    /\ UNCHANGED <<b1, b2, f1, f2, lines, idx, clean_outline, clean_lines,
                   current_item, current_indent, last_line_was_terminated,
                   processed_lines, nodes, stack, last_page_number, err>>

Convert ==
    /\ pc = "numeral"
    /\ number' = convert_to_number(text)
    /\ pc' = "converted"
    /\ UNCHANGED <<probe, written, calls, prev_text, prev_forest, gui>>
    /\ UNCHANGED <<text, b1, b2, f1, f2, lines, idx, clean_outline, clean_lines,
                   current_item, current_indent, last_line_was_terminated,
                   processed_lines, nodes, stack, last_page_number, err>>

Rebeautify ==
    /\ pc = "beautified"
    /\ b2' = beautify_outline(b1)
    /\ pc' = "rebeautified"
    /\ UNCHANGED others
    /\ UNCHANGED <<text, b1, f1, f2, lines, idx, clean_outline, clean_lines,
                   current_item, current_indent, last_line_was_terminated,
                   processed_lines, nodes, stack, last_page_number, err>>

ParseRaw ==
    /\ pc = "rebeautified"
    /\ f1' = parse_outline(text)
    /\ pc' = "parsed_raw"
    /\ UNCHANGED others
    /\ UNCHANGED <<text, b1, b2, f2, lines, idx, clean_outline, clean_lines,
                   current_item, current_indent, last_line_was_terminated,
                   processed_lines, nodes, stack, last_page_number, err>>

ParseBeautified ==
    /\ pc = "parsed_raw"
    /\ f2' = parse_outline(b1)
    /\ pc' = "compared"
    /\ UNCHANGED others
    /\ UNCHANGED <<text, b1, b2, f1, lines, idx, clean_outline, clean_lines,
                   current_item, current_indent, last_line_was_terminated,
                   processed_lines, nodes, stack, last_page_number, err>>

\* normalize_outline: line 97 to 101
NormBegin ==
    /\ pc = "raw"
    /\ lines' = NormLines(text)
    /\ idx' = 0
    /\ clean_lines' = NormInit.clean_lines
    /\ current_item' = NormInit.current_item
    /\ current_indent' = NormInit.current_indent
    /\ last_line_was_terminated' = NormInit.last_line_was_terminated
    /\ pc' = "norm_loop"
    /\ UNCHANGED others
    /\ UNCHANGED <<text, b1, b2, f1, f2, clean_outline, processed_lines,
                   nodes, stack, last_page_number, err>>

NormState == [clean_lines |-> clean_lines, current_item |-> current_item,
              current_indent |-> current_indent,
              last_line_was_terminated |-> last_line_was_terminated]

\* one iteration of the first loop
NormLine ==
    /\ pc = "norm_loop"
    /\ idx < Len(lines)
    /\ LET st == NormStep(NormState, lines[idx + 1])
       IN  /\ clean_lines' = st.clean_lines
           /\ current_item' = st.current_item
           /\ current_indent' = st.current_indent
           /\ last_line_was_terminated' = st.last_line_was_terminated
    /\ idx' = idx + 1
    /\ UNCHANGED others
    /\ UNCHANGED <<text, pc, b1, b2, f1, f2, lines, clean_outline, processed_lines,
                   nodes, stack, last_page_number, err>>

\* the end of the first loop: the last item is added
NormLast ==
    /\ pc = "norm_loop"
    /\ idx = Len(lines)
    /\ clean_lines' = NormFlush(NormState)
    /\ processed_lines' = <<>>
    /\ pc' = "standardize"
    /\ UNCHANGED others
    /\ UNCHANGED <<text, b1, b2, f1, f2, lines, idx, clean_outline, current_item,
                   current_indent, last_line_was_terminated,
                   nodes, stack, last_page_number, err>>

\* one iteration of the second loop
StandardizeLine ==
    /\ pc = "standardize"
    /\ Len(processed_lines) < Len(clean_lines)
    /\ processed_lines' =
           Append(processed_lines, Standardize(clean_lines[Len(processed_lines) + 1]))
    /\ UNCHANGED others
    /\ UNCHANGED <<text, pc, b1, b2, f1, f2, lines, idx, clean_outline, clean_lines,
                   current_item, current_indent, last_line_was_terminated,
                   nodes, stack, last_page_number, err>>

\* return of normalize_outline into parse_outline
NormReturn ==
    /\ pc = "standardize"
    /\ Len(processed_lines) = Len(clean_lines)
    /\ clean_outline' = JoinLines(processed_lines)
    /\ pc' = "clean"
    /\ UNCHANGED others
    /\ UNCHANGED <<text, b1, b2, f1, f2, lines, idx, clean_lines, processed_lines,
                   current_item, current_indent, last_line_was_terminated,
                   nodes, stack, last_page_number, err>>

\* parse_clean_outline: line 153 to 156
ParseBegin ==
    /\ pc = "clean"
    /\ lines' = ParseLines(clean_outline)
    /\ idx' = 0
    /\ nodes' = ParseInit.nodes
    /\ stack' = ParseInit.stack
    /\ last_page_number' = ParseInit.last_page_number
    /\ err' = ParseInit.err
    /\ pc' = "parse_loop"
    /\ UNCHANGED others
    /\ UNCHANGED <<text, b1, b2, f1, f2, clean_outline, clean_lines, current_item,
                   current_indent, last_line_was_terminated, processed_lines>>

ParseState == [nodes |-> nodes, stack |-> stack,
               last_page_number |-> last_page_number, err |-> err]

\* one iteration of the for loop
ParseLine ==
    /\ pc = "parse_loop"
    /\ ~err
    /\ idx < Len(lines)
    /\ LET st == ParseStep(ParseState, lines[idx + 1])
       IN  /\ nodes' = st.nodes
           /\ stack' = st.stack
           /\ last_page_number' = st.last_page_number
           /\ err' = st.err
    /\ idx' = idx + 1
    /\ UNCHANGED others
    /\ UNCHANGED <<text, pc, b1, b2, f1, f2, lines, clean_outline, clean_lines,
                   current_item, current_indent, last_line_was_terminated,
                   processed_lines>>

\* return root["children"]
ParseReturn ==
    /\ pc = "parse_loop"
    /\ ~err
    /\ idx = Len(lines)
    /\ f1' = Forest(nodes)
    /\ pc' = "done"
    /\ UNCHANGED others
    /\ UNCHANGED <<text, b1, b2, f2, lines, idx, clean_outline, clean_lines,
                   current_item, current_indent, last_line_was_terminated,
                   processed_lines, nodes, stack, last_page_number, err>>

\* a call of parse_djvused_outline(text): text is the djvused output of the
\* bookmarks entries, or any text (entries = NoEntries)
InitDjvu ==
    /\ \/ entries \in EntryLists /\ text = BookmarksText(entries)
       \/ entries = NoEntries /\ text \in DjvuTexts
    /\ clean_outline = <<>>
    /\ pc = "djvu"
    /\ NoResult
    /\ written = -1

\* line 960 to 968
DjvuBegin ==
    /\ pc = "djvu"
    /\ djvu_i' = 0
    /\ djvu_level' = 0
    /\ result' = <<>>
    /\ pc' = IF DjvuEmpty(text) THEN "djvu_done" ELSE "djvu_loop"
    /\ UNCHANGED <<probe, number, written, calls, prev_text, prev_forest,
                   entries, adjustment, adjusted_text>>
    /\ UNCHANGED <<text, b1, b2, f1, f2, lines, idx, clean_outline, clean_lines,
                   current_item, current_indent, last_line_was_terminated,
                   processed_lines, nodes, stack, last_page_number, err>>

DjvuState == [i |-> djvu_i, level |-> djvu_level, result |-> result]

\* one iteration of the while loop
DjvuStep ==
    /\ pc = "djvu_loop"
    /\ djvu_i < Len(text)
    /\ LET st == DjvuIter(text, DjvuState)
       IN  /\ djvu_i' = st.i
           /\ djvu_level' = st.level
           /\ result' = st.result
    /\ UNCHANGED <<probe, number, written, calls, prev_text, prev_forest,
                   entries, adjustment, adjusted_text>>
    /\ UNCHANGED <<text, pc, b1, b2, f1, f2, lines, idx, clean_outline, clean_lines,
                   current_item, current_indent, last_line_was_terminated,
                   processed_lines, nodes, stack, last_page_number, err>>

\* return result
DjvuReturn ==
    /\ pc = "djvu_loop"
    /\ djvu_i >= Len(text)
    /\ pc' = "djvu_done"
    /\ UNCHANGED others
    /\ UNCHANGED <<text, b1, b2, f1, f2, lines, idx, clean_outline, clean_lines,
                   current_item, current_indent, last_line_was_terminated,
                   processed_lines, nodes, stack, last_page_number, err>>

NextDjvu == DjvuBegin \/ DjvuStep \/ DjvuReturn
\* parse_djvused_outline on its own
SpecDjvu == InitDjvu /\ [][NextDjvu]_vars

\* the outline widget holds text when a button of the page adjustment is
\* pressed
InitAdjust ==
    /\ text \in AdjustTexts
    /\ clean_outline = <<>>
    /\ pc = "adjust"
    /\ Idle

\* adjust_page_numbers(direction) with the amount of the entry field, up to
\* the update of the widget
Adjust ==
    /\ pc = "adjust"
    /\ \E amount \in (-MaxAmount)..MaxAmount, direction \in {-1, 1} :
           /\ adjustment' = amount * direction
           /\ adjusted_text' = AdjustedText(text, amount * direction)
    /\ pc' = "adjusted"
    /\ UNCHANGED <<probe, number, written, calls, prev_text, prev_forest,
                   djvu_i, djvu_level, result, entries>>
    /\ UNCHANGED <<text, b1, b2, f1, f2, lines, idx, clean_outline, clean_lines,
                   current_item, current_indent, last_line_was_terminated,
                   processed_lines, nodes, stack, last_page_number, err>>

\* adjust_page_numbers on its own
SpecAdjust == InitAdjust /\ [][Adjust]_vars

NextBeautify == Beautify \/ Rebeautify \/ ParseRaw \/ ParseBeautified \/ Probe
NextParseClean == ParseBegin \/ ParseLine \/ ParseReturn
NextParse == NormBegin \/ NormLine \/ NormLast \/ StandardizeLine \/ NormReturn
                \/ ParseBegin \/ ParseLine \/ ParseReturn

\* beautify_outline and the comparison of the forests
SpecBeautify == InitBeautify /\ [][NextBeautify]_vars
\* parse_clean_outline on its own
SpecParseClean == InitParseClean /\ [][NextParseClean]_vars
\* parse_outline: normalize_outline, then parse_clean_outline
SpecParse == InitParse /\ [][NextParse]_vars
\* parse_outline or parse_clean_outline
SpecParseAny == (InitParse \/ InitParseClean) /\ [][NextParse]_vars
\* calls of parse_outline one after the other
NextCalls == NextParse \/ CallAgain
SpecCalls == InitCalls /\ [][NextCalls]_vars
\* convert_to_number on its own
SpecConvert == InitConvert /\ [][Convert]_vars
\* any of the calls
Init == InitBeautify \/ InitParseClean \/ InitParse \/ InitConvert \/ InitDjvu \/ InitAdjust
Next == NextBeautify \/ NextParse \/ Convert \/ NextDjvu \/ Adjust
Spec == Init /\ [][Next]_vars

----------------------------------------------------------------------------
(* Properties of beautify_outline *)

BeautifiedOnce == pc \in {"beautified", "rebeautified", "parsed_raw", "compared"}
BeautifiedTwice == pc \in {"rebeautified", "parsed_raw", "compared"}

\* C1: beautify_outline is idempotent: beautifying the result of
\* beautify_outline gives that result again, character for character.
BeautifyIdempotent == BeautifiedTwice => b2 = b1

\* a text that beautify_outline changed into one that is_beautified rejects,
\* with a separator line in it, so that the second call runs the loop again
BeautifyIdempotentWitness ==
    /\ BeautifiedTwice
    /\ b1 # text
    /\ ~is_beautified(b1)
    /\ \E i \in 1..Len(SplitLines(b1)) : SplitLines(b1)[i] = <<>>
    /\ b2 = b1

\* C2: parse_outline gives the same forest for a text and for the result of
\* beautify_outline on that text.
BeautifyKeepsForest == pc = "compared" => f2 = f1

\* C3: when is_beautified(text) holds, beautify_outline returns text unchanged.
BeautifyShortCircuit == (BeautifiedOnce /\ is_beautified(text)) => b1 = text

\* a beautified text of several entries, which the loop of beautify_outline
\* would have changed by inserting separator lines
BeautifyShortCircuitWitness ==
    /\ BeautifiedOnce
    /\ is_beautified(text)
    /\ Len(NonBlank(SplitLines(text))) >= 2
    /\ BeautifyAlways(text) # text
    /\ b1 = text

----------------------------------------------------------------------------
(* Properties of parse_clean_outline *)

\* the node whose children list holds node k
Parent(k) == CHOOSE p \in 1..Len(nodes) : k \in Range(nodes[p].children)

Depth(line) == Indentation(line) \div 4

\* every child in the tree t lies strictly deeper than its parent
RECURSIVE ChildrenDeeper(_)
ChildrenDeeper(t) ==
    \A j \in 1..Len(t.children) :
        /\ t.children[j].level > t.level
        /\ ChildrenDeeper(t.children[j])

\* C4: in the forest parse_clean_outline returns, the level of every node
\* that has a parent is strictly greater than the level of its parent.
ParentShallower == pc = "done" => \A i \in 1..Len(f1) : ChildrenDeeper(f1[i])

\* a returned forest with a child, the stack having been unwound
ParentShallowerWitness ==
    /\ pc = "done"
    /\ Len(f1) >= 2
    /\ Len(f1[1].children) >= 1

\* C5 as stated: the level of a node is the level of its parent plus 1, and
\* 0 for a node without a parent.
LevelIsParentPlusOne ==
    \A k \in 2..Len(nodes) :
        IF Parent(k) = 1 THEN nodes[k].level = 0
        ELSE nodes[k].level = nodes[Parent(k)].level + 1

\* the first n lines start at depth 0 and no line is more than one level
\* deeper than the line before it
WellStepped(ls, n) ==
    /\ n >= 1 => Depth(ls[1]) = 0
    /\ \A i \in 2..n : Depth(ls[i]) <= Depth(ls[i - 1]) + 1

\* C5 amended: the level of a node is at least the level of its parent plus
\* 1, and at least 0 for a node without a parent; it is exactly the level of
\* the parent plus 1, and exactly 0 without a parent, when the first line is at
\* depth 0 and no line is more than one level deeper than the line before it.
LevelIsParentPlusOneWhenStepped ==
    pc \in {"parse_loop", "done"} =>
        /\ \A k \in 2..Len(nodes) :
               IF Parent(k) = 1 THEN nodes[k].level >= 0
               ELSE nodes[k].level >= nodes[Parent(k)].level + 1
        /\ WellStepped(lines, idx) => LevelIsParentPlusOne

\* three levels of nesting and a return to the top level, in steps of one
LevelIsParentPlusOneWitness ==
    /\ pc = "done"
    /\ WellStepped(lines, idx)
    /\ \E k \in 2..Len(nodes) : nodes[k].level = 2
    /\ Len(nodes[1].children) >= 2

\* the line carries a whitespace-plus-numeral token at its end
CarriesPage(line) == PageMatch(LStrip(line)).found

\* the lines before line i that carry a page token
PagedBefore(i) == {j \in 1..(i - 1) : CarriesPage(lines[j])}

SetMax(S) == CHOOSE x \in S : \A y \in S : y <= x

\* C6: a line without a trailing whitespace-plus-numeral token gets the page
\* number of the nearest preceding line that carries one, or 0 when no
\* preceding line carries one.
PageInherited ==
    pc \in {"parse_loop", "done"} =>
        \A i \in 1..idx :
            ~CarriesPage(lines[i]) =>
                nodes[i + 1].page_number =
                    IF PagedBefore(i) = {} THEN 0
                    ELSE nodes[SetMax(PagedBefore(i)) + 1].page_number

\* a line without a token that is not below the nearest line with a token,
\* which is not the first line with a token and whose page differs from it
PageInheritedWitness ==
    /\ pc = "done"
    /\ \E i \in 1..idx :
           /\ ~CarriesPage(lines[i])
           /\ Cardinality(PagedBefore(i)) >= 2
           /\ Parent(i + 1) # SetMax(PagedBefore(i)) + 1
           /\ nodes[i + 1].page_number # nodes[Parent(i + 1)].page_number
           /\ \E j \in PagedBefore(i) :
                  nodes[j + 1].page_number # nodes[i + 1].page_number

\* the lines before line i that are less deep than line i
ShallowerBefore(i) == {j \in 1..(i - 1) : Depth(lines[j]) < Depth(lines[i])}

ExampleForest ==
    <<[title |-> <<"P","R","E","F","A","C","E">>, level |-> 0, page_number |-> 1,
       children |-> <<>>],
      [title |-> <<"C","H","A","P","T","E","R"," ","1","."," ",
                   "I","N","T","R","O","D","U","C","T","I","O","N">>,
       level |-> 0, page_number |-> 2,
       children |-> <<[title |-> <<"1",".","1"," ","B","a","c","k","g","r","o","u","n","d">>,
                       level |-> 1, page_number |-> 3, children |-> <<>>]>>]>>

\* C7: the parent of a node is the node of the nearest preceding line of
\* strictly smaller depth, the node is top-level when there is no such line,
\* a jump in depth creates no placeholder node, and the example outline gives
\* PREFACE and CHAPTER 1. INTRODUCTION at the top level with 1.1 Background
\* the only child of the second.
ParentIsNearestShallower ==
    pc \in {"parse_loop", "done"} =>
        /\ Len(nodes) = idx + 1
        /\ \A i \in 1..idx :
               /\ nodes[i + 1].level = Depth(lines[i])
               /\ Parent(i + 1) = IF ShallowerBefore(i) = {} THEN 1
                                  ELSE SetMax(ShallowerBefore(i)) + 1
        /\ (pc = "done" /\ clean_outline = ExampleOutline) => f1 = ExampleForest

\* a jump of more than one level, and a line whose parent is neither the
\* line before it nor the root
ParentIsNearestShallowerWitness ==
    /\ pc = "done"
    /\ \E i \in 2..idx : Depth(lines[i]) > Depth(lines[i - 1]) + 1
    /\ \E i \in 2..idx : Parent(i + 1) \notin {1, i}

\* the example outline parsed
ExampleParsed == pc = "done" /\ clean_outline = ExampleOutline

\* parent before children, children left to right
RECURSIVE PreOrder(_, _)
RECURSIVE PreOrderAll(_, _)
PreOrder(ns, k) == <<k>> \o PreOrderAll(ns, ns[k].children)
PreOrderAll(ns, ks) ==
    IF ks = <<>> THEN <<>> ELSE PreOrder(ns, Head(ks)) \o PreOrderAll(ns, Tail(ks))

\* the title and the level parse_clean_outline gives to a line
TitleOf(line) ==
    IF CarriesPage(line)
    THEN Strip(Prefix(LStrip(line), PageMatch(LStrip(line)).start))
    ELSE LStrip(line)

NonBlankCount(outline) ==
    Cardinality({i \in 1..Len(SplitLines(outline)) : Strip(SplitLines(outline)[i]) # <<>>})

\* C8: the pre-order traversal of the returned forest has one node per
\* non-blank line, in the order of the lines, and every children list is in
\* the order of the lines.
PreOrderIsLineOrder ==
    pc = "done" =>
        /\ PreOrderAll(nodes, nodes[1].children) = [i \in 1..idx |-> i + 1]
        /\ idx = NonBlankCount(clean_outline)
        /\ \A i \in 1..idx : /\ nodes[i + 1].title = TitleOf(lines[i])
                              /\ nodes[i + 1].level = Depth(lines[i])
        /\ \A k \in 1..Len(nodes) :
               \A a, b \in 1..Len(nodes[k].children) :
                   a < b => nodes[k].children[a] < nodes[k].children[b]

\* a node with two children and a later top-level node
PreOrderIsLineOrderWitness ==
    /\ pc = "done"
    /\ \E k \in 2..Len(nodes) : Len(nodes[k].children) >= 2
    /\ Len(nodes[1].children) >= 2
    /\ nodes[1].children[Len(nodes[1].children)] = Len(nodes)

----------------------------------------------------------------------------
(* Properties of parse_outline and normalize_outline *)

EmptyParsed == pc = "done" /\ text = <<>> /\ lines = <<>> /\ f1 = <<>>

\* the line begins with digits and '.', a capital letter and '.', '-' or '*'
BeginsWithMarker(content) ==
    \/ /\ LeadRun(content, Digits) >= 1
       /\ Len(content) > LeadRun(content, Digits)
       /\ content[LeadRun(content, Digits) + 1] = "."
    \/ Len(content) >= 2 /\ content[1] \in UpperChars /\ content[2] = "."
    \/ Len(content) >= 1 /\ content[1] \in {"-", "*"}

\* the line begins with such a marker and a whitespace character after it
BeginsWithMarkerAndSpace(content) ==
    \/ /\ LeadRun(content, Digits) >= 1
       /\ Len(content) > LeadRun(content, Digits) + 1
       /\ content[LeadRun(content, Digits) + 1] = "."
       /\ content[LeadRun(content, Digits) + 2] \in Whitespace
    \/ /\ Len(content) >= 3 /\ content[1] \in UpperChars /\ content[2] = "."
       /\ content[3] \in Whitespace
    \/ Len(content) >= 2 /\ content[1] \in {"-", "*"} /\ content[2] \in Whitespace

\* what an iteration of the first loop does with the line lines[idx + 1],
\* marked telling whether the line counts as beginning with a list marker
ContinuationRule(marked) ==
    LET content == Strip(lines[idx + 1])
        previous_paged == idx >= 1 /\ has_page_number(Strip(lines[idx]))
        appended == /\ ~previous_paged
                    /\ ~has_page_number(content)
                    /\ ~marked
                    /\ current_item # None
    IN  IF appended
        THEN /\ current_item' = current_item \o <<SP>> \o content
             /\ clean_lines' = clean_lines
        ELSE /\ current_item' = content
             /\ current_indent' = Depth(lines[idx + 1])
             /\ clean_lines' = IF current_item = None THEN clean_lines
                               ELSE Append(clean_lines,
                                           Spaces(4 * current_indent) \o current_item)

\* C10 as stated: a line is appended to the open item iff the previous line
\* ended with no page-number token, the line has no page-number token, the
\* line does not begin with a list marker (digits and '.', a capital letter
\* and '.', '-' or '*') and an item is open; otherwise the open item is
\* flushed and the line opens a new item.
ContinuationByMarker ==
    [][NormLine => ContinuationRule(BeginsWithMarker(Strip(lines[idx + 1])))]_vars

\* C10 amended: as stated, a list marker being digits and '.', a capital
\* letter and '.', '-' or '*' followed by a whitespace character.
ContinuationByMarkerAndSpace ==
    [][NormLine => ContinuationRule(BeginsWithMarkerAndSpace(Strip(lines[idx + 1])))]_vars

\* a line beginning with '-' or with digits and '.', no whitespace after
\* them, has been appended to the item of the line before it
ContinuationByMarkerAndSpaceWitness ==
    /\ pc = "norm_loop"
    /\ idx >= 2
    /\ BeginsWithMarker(Strip(lines[idx]))
    /\ current_item = Strip(lines[idx - 1]) \o <<SP>> \o Strip(lines[idx])

SomeTitleForest ==
    <<[title |-> <<"S","o","m","e"," ","T","i","t","l","e">>, level |-> 0,
       page_number |-> 0,
       children |-> <<[title |-> <<"t","h","a","t"," ","w","r","a","p","s">>,
                       level |-> 1, page_number |-> 7, children |-> <<>>]>>]>>

\* the open item is flushed and the line lines[idx + 1] opens a new item
OpensNewItem ==
    /\ current_item' = Strip(lines[idx + 1])
    /\ current_indent' = Depth(lines[idx + 1])
    /\ Len(clean_lines') = Len(clean_lines) + (IF current_item = None THEN 0 ELSE 1)

\* C11: a line with a detected page-number token of its own is never merged
\* into the item before it but opens a new entry; 'Some Title' followed by
\* '    that wraps 7' gives 'Some Title' at depth 0 with page 0 and
\* 'that wraps' at depth 1 with page 7.
PagedLineOpensEntry ==
    /\ [][(NormLine /\ has_page_number(Strip(lines[idx + 1]))) => OpensNewItem]_vars
    /\ []((pc = "done" /\ text = SomeTitleOutline) => f1 = SomeTitleForest)

\* the example parsed: the second line followed a line without a page number
PagedLineOpensEntryWitness ==
    /\ pc = "done"
    /\ text = SomeTitleOutline
    /\ Len(clean_lines) = 2
    /\ f1 = SomeTitleForest

\* C12: every line normalize_outline emits is indented by 4 x d spaces, d
\* being the indentation of the first line of the item, tabs expanded,
\* divided by 4; the indentation is a multiple of 4 and the rewriting of the
\* page-number part does not change it.
EmittedIndentIsDepth ==
    pc = "standardize" =>
        /\ \A i \in 1..Len(processed_lines) :
               /\ Indentation(processed_lines[i]) % 4 = 0
               /\ Indentation(processed_lines[i]) = Indentation(clean_lines[i])
        /\ Len(processed_lines) >= 1 =>
               Indentation(processed_lines[1]) = 4 * Depth(lines[1])

\* C13: an item that ends with a detected page-number token is emitted as
\* its title text, one space and the numeral of the token as it was written,
\* the separator run before the numeral removed.
PageTokenRewritten ==
    pc = "standardize" =>
        \A i \in 1..Len(processed_lines) :
            LET content == LStrip(clean_lines[i])
                token == PageToken(content)
            IN  token.found =>
                    processed_lines[i] =
                        Spaces(Indentation(clean_lines[i]))
                            \o RStrip(Prefix(content, token.start))
                            \o <<SP>> \o token.num

\* items with a Roman numeral after dots and with a numeral after '(' emitted
PageTokenRewrittenWitness ==
    /\ pc = "standardize"
    /\ Len(processed_lines) = Len(clean_lines)
    /\ \E i \in 1..Len(processed_lines) :
           /\ PageToken(LStrip(clean_lines[i])).found
           /\ PageToken(LStrip(clean_lines[i])).num \in Seq(RomanChars)
           /\ Len(processed_lines[i]) < Len(clean_lines[i])
    /\ \E i \in 1..Len(processed_lines) :
           /\ PageToken(LStrip(clean_lines[i])).found
           /\ "(" \in Range(clean_lines[i])
           /\ Len(processed_lines[i]) < Len(clean_lines[i])

\* a line whose indentation is a multiple of 4 and whose trailing digit run,
\* if it has one, comes after a non-whitespace character and one whitespace
CanonicalLine(line) ==
    LET content == Strip(line)
        k == TrailRun(content, Digits)
    IN  /\ LeadRun(line, Whitespace) % 4 = 0
        /\ k >= 1 => TrailRun(DropLast(content, k), Whitespace) = 1

CanonicalLines(t) ==
    \A i \in 1..Len(SplitLines(t)) :
        Strip(SplitLines(t)[i]) # <<>> => CanonicalLine(SplitLines(t)[i])

\* C14 as stated: is_beautified(T) is true exactly when every non-blank line
\* of T is canonical, for every text T, the empty text included.
BeautifiedIffCanonical ==
    pc = "probed" => (probe <=> CanonicalLines(text))

\* C14: is_beautified(T) is true exactly when T is not the empty text and
\* every non-blank line of T is canonical; a text of blank lines only is
\* beautified, the empty text is not.
BeautifiedIffCanonicalAndNotEmpty ==
    pc = "probed" => (probe <=> (text # <<>> /\ CanonicalLines(text)))

\* a text with a canonical numbered line after a blank line is found
\* beautified
BeautifiedIffCanonicalAndNotEmptyWitness ==
    /\ pc = "probed"
    /\ probe
    /\ text = <<NL, SP, SP, SP, SP, "a", SP, "1">>

----------------------------------------------------------------------------
(* Properties of convert_to_number *)

\* C15: convert_to_number gives the value of a string of decimal digits, 0
\* for the empty string, and the standard value of a Roman numeral in
\* canonical subtractive notation, in upper or lower case.
ConvertsNumerals ==
    (pc = "converted" /\ written >= 0) => number = written

ConvertsNumeralsWitness ==
    /\ pc = "converted"
    /\ text = <<"m", "c", "m", "x", "c", "i", "v">>
    /\ written = 1994
    /\ number = 1994

RomanLetters ==
    {"I", "V", "X", "L", "C", "D", "M", "i", "v", "x", "l", "c", "d", "m"}

\* C16 as stated: an empty or malformed numeral converts to 0.
MalformedIsZero ==
    (pc = "converted" /\ (text = <<>> \/ written = -1)) => number = 0

\* C16: an empty or malformed numeral converts to a number that is not
\* negative, and that is 0 exactly when the token has no Roman letter of
\* either case in it.
MalformedIsZeroWithoutRomanLetter ==
    (pc = "converted" /\ (text = <<>> \/ written = -1)) =>
        /\ number \in Nat
        /\ number = 0 <=> Range(text) \cap RomanLetters = {}

\* IIX converts to 10 and az to 0
MalformedIsZeroWithoutRomanLetterWitness ==
    /\ pc = "converted"
    /\ written = -1
    /\ \/ text = <<"I", "I", "X">> /\ number = 10
       \/ text = <<"a", "z">> /\ number = 0

----------------------------------------------------------------------------
(* Properties of the text grammar *)

PrefaceForest ==
    <<[title |-> <<"P","r","e","f","a","c","e">>, level |-> 0,
       page_number |-> 4, children |-> <<>>]>>

\* C17: a trailing numeral of Roman letters in lower case is a page-number
\* token: 'Preface iv' gives a node of title 'Preface' and page 4, as
\* 'Preface IV' does.
LowerRomanIsPageToken ==
    (pc = "done" /\ text \in {PrefaceLower, PrefaceUpper}) => f1 = PrefaceForest

\* rest is whitespace and then a numeral of digits or of upper-case Roman
\* letters
NumeralToken(rest) ==
    \E j \in 1..(Len(rest) - 1) :
        /\ \A i \in 1..j : rest[i] \in Whitespace
        /\ \/ \A i \in (j + 1)..Len(rest) : rest[i] \in Digits
           \/ \A i \in (j + 1)..Len(rest) : rest[i] \in RomanChars

EndsWithToken(content) ==
    \E n \in 2..Len(content) : NumeralToken(Suffix(content, n))

\* what follows the title in the content of the line
AfterTitle(k) ==
    Suffix(LStrip(lines[k - 1]), Len(LStrip(lines[k - 1])) - Len(nodes[k].title))

\* the title of node k is the beginning of the content of its line
TitleBeginsContent(k) ==
    /\ Len(nodes[k].title) <= Len(LStrip(lines[k - 1]))
    /\ Prefix(LStrip(lines[k - 1]), Len(nodes[k].title)) = nodes[k].title

\* C18 as stated: the title of a node is the content of its line without the
\* trailing whitespace-plus-numeral token, if any, and without surrounding
\* whitespace; nothing else is removed.
TitleTrimmedVerbatim ==
    pc = "done" =>
        \A k \in 2..Len(nodes) :
            /\ TitleBeginsContent(k)
            /\ nodes[k].title = RStrip(nodes[k].title)
            /\ IF EndsWithToken(LStrip(lines[k - 1])) THEN NumeralToken(AfterTitle(k))
               ELSE AfterTitle(k) \in Seq(Whitespace)

\* C18: the title of a node is the content of its line without the trailing
\* whitespace-plus-numeral token and trimmed when the line ends with such a
\* token (digits or upper-case Roman letters); it is the line without its
\* leading whitespace, trailing whitespace kept, when the line does not;
\* leading numbering or labels are never removed.
TitleVerbatim ==
    pc = "done" =>
        \A k \in 2..Len(nodes) :
            /\ TitleBeginsContent(k)
            /\ IF EndsWithToken(LStrip(lines[k - 1]))
               THEN /\ NumeralToken(AfterTitle(k))
                    /\ nodes[k].title = RStrip(nodes[k].title)
               ELSE AfterTitle(k) = <<>>

\* a numbered line with a page and a line that ends with a space
TitleVerbatimWitness ==
    /\ pc = "done"
    /\ Len(nodes) = 3
    /\ nodes[2].title = <<"1", ".", SP, "b">>
    /\ nodes[3].title = <<"a", SP>>

----------------------------------------------------------------------------
(* Properties of sequences of calls *)

----------------------------------------------------------------------------
(* Properties of the page numbers *)

\* C20: every node of every forest of parse_clean_outline has a page_number
\* that is an integer >= 0, whatever the numeral tokens of the lines.
PageNumberDefined ==
    \A k \in 2..Len(nodes) : nodes[k].page_number \in Nat

\* a first line without a page and a line with a Roman page
PageNumberDefinedWitness ==
    /\ pc = "done"
    /\ Len(nodes) >= 3
    /\ ~CarriesPage(lines[1])
    /\ nodes[2].page_number = 0
    /\ \E k \in 3..Len(nodes) : CarriesPage(lines[k - 1]) /\ nodes[k].page_number = 4

----------------------------------------------------------------------------
(* The rule of the Roman conversion *)

LetterValue(c) == RomanValue(Upper(c))

\* scanning s[1..k] from the right end of s: the sum in which a value is
\* subtracted when it is less than the largest value seen so far
RECURSIVE RunningMaxSum(_, _, _)
RunningMaxSum(s, k, largest) ==
    IF k = 0 THEN 0
    ELSE (IF LetterValue(s[k]) < largest THEN -LetterValue(s[k]) ELSE LetterValue(s[k]))
             + RunningMaxSum(s, k - 1, Max(largest, LetterValue(s[k])))

\* the sum in which a value is subtracted when it is less than the value of
\* the letter on its right
RECURSIVE NeighbourSum(_, _)
NeighbourSum(s, k) ==
    IF k = 0 THEN 0
    ELSE (IF k < Len(s) /\ LetterValue(s[k]) < LetterValue(s[k + 1])
          THEN -LetterValue(s[k]) ELSE LetterValue(s[k]))
             + NeighbourSum(s, k - 1)

IsRomanString == text # <<>> /\ Range(text) \subseteq RomanLetters

\* C21 as stated: for a string of Roman letters convert_to_number is the sum,
\* scanning right to left, in which a letter's value is subtracted when it is
\* less than the running maximum of the values seen so far, floored at 0.
ConvertIsRunningMaxSum ==
    (pc = "converted" /\ IsRomanString) =>
        number = Max(RunningMaxSum(text, Len(text), 0), 0)

\* C21: for a string of Roman letters convert_to_number is the sum in which a
\* letter's value is subtracted when it is less than the value of the letter
\* immediately on its right and added otherwise, floored at 0.
ConvertIsNeighbourSum ==
    (pc = "converted" /\ IsRomanString) =>
        number = Max(NeighbourSum(text, Len(text)), 0)

\* VIX converts to 14: V is added although X has been seen
ConvertIsNeighbourSumWitness ==
    /\ pc = "converted"
    /\ text = <<"V", "I", "X">>
    /\ number = 14

----------------------------------------------------------------------------
(* Properties of the output of beautify_outline *)

HasNonBlankLine(t) ==
    \E i \in 1..Len(SplitLines(t)) : Strip(SplitLines(t)[i]) # <<>>

\* C22: the result of beautify_outline on an outline with at least one
\* non-blank line is recognized as beautified by is_beautified.
BeautifiedIsRecognized ==
    (BeautifiedOnce /\ HasNonBlankLine(text)) => is_beautified(b1)

NotBlank(line) == Strip(line) # <<>>

\* the non-blank lines of the input and of the output of beautify_outline
InLines == SelectSeq(SplitLines(text), NotBlank)
OutLines == SelectSeq(SplitLines(b1), NotBlank)

\* the loop of beautify_outline has run: the input was not found beautified
Reformatted == pc = "beautified" /\ ~is_beautified(text)

\* for the first j non-blank lines of the input: which lines of the output
\* are blank, one blank line before every line of level 0 but the first
RECURSIVE BlankBeforeLevelZero(_)
BlankBeforeLevelZero(j) ==
    IF j = 0 THEN <<>>
    ELSE BlankBeforeLevelZero(j - 1)
             \o (IF j > 1 /\ LeadRun(InLines[j], Whitespace) \div 4 = 0
                 THEN <<TRUE>> ELSE <<>>)
             \o <<FALSE>>

\* the characters of a line that are no whitespace
NoWhitespace(line) == SelectSeq(line, LAMBDA c : c \notin Whitespace)

\* C23: when the input is not canonical, the output of beautify_outline has
\* one empty line before every line of level 0 except the first emitted
\* line, no other blank line, and the non-blank lines in their order.
BlankLinesBeforeLevelZero ==
    Reformatted =>
        /\ Len(SplitLines(b1)) = Len(BlankBeforeLevelZero(Len(InLines)))
        /\ \A p \in 1..Len(SplitLines(b1)) :
               /\ (SplitLines(b1)[p] = <<>>) = BlankBeforeLevelZero(Len(InLines))[p]
               /\ NotBlank(SplitLines(b1)[p]) = ~BlankBeforeLevelZero(Len(InLines))[p]
        /\ Len(OutLines) = Len(InLines)
        /\ \A j \in 1..Len(OutLines) : NoWhitespace(OutLines[j]) = NoWhitespace(InLines[j])

\* two blank lines between two lines of level 0 in the input, one in the
\* output
BlankLinesBeforeLevelZeroWitness ==
    /\ Reformatted
    /\ Len(SplitLines(text)) = 4
    /\ Len(InLines) = 2
    /\ BlankBeforeLevelZero(2) = <<FALSE, TRUE, FALSE>>
    /\ Len(SplitLines(b1)) = 3

\* the j-th non-blank line of the input ends with whitespace and digits
EndsWithSpacedDigits(content) ==
    /\ TrailRun(content, Digits) >= 1
    /\ TrailRun(DropLast(content, TrailRun(content, Digits)), Whitespace) >= 1

\* the content without its trailing digits and the whitespace before them
BeforeDigits(content) ==
    DropLast(content, TrailRun(content, Digits)
                          + TrailRun(DropLast(content, TrailRun(content, Digits)), Whitespace))

\* C24: when the input is not canonical, every non-blank line of the output
\* of beautify_outline is indented by 4 x (leading whitespace of the input
\* line div 4) spaces, and a content that ends with whitespace and digits is
\* emitted with one space between the title and the digits.
RequantizedAndOneSpace ==
    Reformatted =>
        /\ Len(OutLines) = Len(InLines)
        /\ \A j \in 1..Len(OutLines) :
               /\ LeadRun(OutLines[j], {SP}) = 4 * (LeadRun(InLines[j], Whitespace) \div 4)
               /\ Indentation(OutLines[j]) = LeadRun(OutLines[j], {SP})
               /\ EndsWithSpacedDigits(Strip(InLines[j])) =>
                      LStrip(OutLines[j]) =
                          BeforeDigits(Strip(InLines[j])) \o <<SP>>
                              \o Suffix(Strip(InLines[j]), TrailRun(Strip(InLines[j]), Digits))

\* a line indented by a tab with two spaces before its digit
RequantizedAndOneSpaceWitness ==
    /\ Reformatted
    /\ text = <<TAB, "a", SP, SP, "1">>
    /\ b1 = <<"a", SP, "1">>

\* the content ends with whitespace and upper-case Roman letters
EndsWithSpacedRoman(content) ==
    /\ TrailRun(content, RomanChars) >= 1
    /\ TrailRun(DropLast(content, TrailRun(content, RomanChars)), Whitespace) >= 1

\* C25: a line whose content ends with a Roman token is emitted by
\* beautify_outline with its content, trimmed, as it is: the spacing before
\* the Roman token is kept, only the indentation is requantized.
RomanTokenKept ==
    pc = "beautified" =>
        /\ Len(OutLines) = Len(InLines)
        /\ \A j \in 1..Len(OutLines) :
               EndsWithSpacedRoman(Strip(InLines[j])) =>
                   /\ Strip(OutLines[j]) = Strip(InLines[j])
                   /\ ~is_beautified(text) =>
                          OutLines[j] = Spaces(4 * (LeadRun(InLines[j], Whitespace) \div 4))
                                            \o Strip(InLines[j])

\* a line indented by one space with two spaces before its Roman token
RomanTokenKeptWitness ==
    /\ Reformatted
    /\ text = <<SP, "a", SP, SP, "I">>
    /\ b1 = <<"a", SP, SP, "I">>

----------------------------------------------------------------------------
(* The stack of parse_clean_outline *)

\* C26: after every processed line the stack of parse_clean_outline is not
\* empty, its bottom is the synthetic root of level -1, the levels increase
\* strictly from bottom to top and the top is the node just created; the
\* root is in no children list, so it is not in the returned forest.
StackInvariant ==
    pc \in {"parse_loop", "done"} =>
        /\ ~err
        /\ Len(stack) >= 1
        /\ stack[1] = 1
        /\ nodes[1].level = -1
        /\ nodes[1].title = <<"R", "O", "O", "T">>
        /\ \A i \in 1..(Len(stack) - 1) : nodes[stack[i]].level < nodes[stack[i + 1]].level
        /\ idx >= 1 => (Len(stack) >= 2 /\ stack[Len(stack)] = Len(nodes))
        /\ \A k \in 1..Len(nodes) : 1 \notin Range(nodes[k].children)
        /\ pc = "done" => f1 = Forest(nodes) /\ Len(PreOrderAll(nodes, nodes[1].children)) = Len(nodes) - 1

\* entries have been popped and the stack holds the root and two nodes
StackInvariantWitness ==
    /\ pc = "parse_loop"
    /\ idx = 4
    /\ Len(nodes) = 5
    /\ Len(stack) = 3

----------------------------------------------------------------------------
(* Bare numerals in normalize_outline *)

\* the whole content is digits, or upper-case Roman letters
BareNumeral(content) ==
    content # <<>> /\ (content \in Seq(Digits) \/ content \in Seq(RomanChars))

\* line k of the input opens an item: it is the first line, it has a page
\* token or a list marker, or the line before it has a page token
Opens(k) ==
    \/ k = 1
    \/ has_page_number(Strip(lines[k]))
    \/ starts_with_number(Strip(lines[k]))
    \/ has_page_number(Strip(lines[k - 1]))

\* the item line i belongs to, and whether line i is the last line of it
ItemOf(i) == Cardinality({k \in 1..i : Opens(k)})
LastOfItem(i) == i = Len(lines) \/ Opens(i + 1)

AppendsToItem ==
    /\ current_item # None
    /\ current_item' = current_item \o <<SP>> \o Strip(lines[idx + 1])
    /\ current_indent' = current_indent
    /\ clean_lines' = clean_lines

\* a bare numeral is no page-number line; it opens an entry when it is the
\* first line or follows a line with a page token, and is appended to the
\* open item otherwise
BareNumeralStep ==
    (NormLine /\ BareNumeral(Strip(lines[idx + 1]))) =>
        /\ ~has_page_number(Strip(lines[idx + 1]))
        /\ IF idx = 0 \/ has_page_number(Strip(lines[idx]))
           THEN OpensNewItem
           ELSE AppendsToItem

EndsWithNumeral(line, numeral) ==
    /\ Len(line) > Len(numeral)
    /\ Suffix(line, Len(numeral) + 1) = <<SP>> \o numeral

Normalized == pc = "standardize" /\ Len(processed_lines) = Len(clean_lines)

\* C27 as stated: a bare numeral that is appended to an open item is the
\* trailing page token of that item in the output.
BareNumeralIsTrailingToken ==
    /\ [][BareNumeralStep]_vars
    /\ [](Normalized =>
             \A i \in 2..Len(lines) :
                 (BareNumeral(Strip(lines[i])) /\ ~Opens(i)) =>
                     EndsWithNumeral(processed_lines[ItemOf(i)], Strip(lines[i])))

\* C27: a bare numeral is not detected as a page-number line; after an open
\* item whose lines had no page token it is appended to the item, and it is
\* the trailing page token of the item in the output when no later line is
\* appended to the item; as first line or after a line with a page token it
\* is a separate entry.
BareNumeralIsTrailingTokenWhenLast ==
    /\ [][BareNumeralStep]_vars
    /\ [](Normalized =>
             /\ Len(lines) >= 1 => Len(processed_lines) = ItemOf(Len(lines))
             /\ \A i \in 2..Len(lines) :
                    (BareNumeral(Strip(lines[i])) /\ ~Opens(i) /\ LastOfItem(i)) =>
                        EndsWithNumeral(processed_lines[ItemOf(i)], Strip(lines[i])))

\* a numeral that opens an entry as the first line, a numeral appended to
\* it, and a line with a page token
BareNumeralIsTrailingTokenWhenLastWitness ==
    /\ Normalized
    /\ lines = << <<"7">>, <<"I", "V">>, <<"b", SP, "2">> >>
    /\ processed_lines = << <<"7", SP, "I", "V">>, <<"b", SP, "2">> >>

----------------------------------------------------------------------------
(* Properties of parse_djvused_outline *)

\* text is the djvused output of the bookmarks entries
WrittenForEntries == entries # NoEntries

\* C28: for djvused output of the form (bookmarks ("Title" "#Page") ...) the
\* result of parse_djvused_outline has one line per bookmark, in order, with
\* the title and the page of the bookmark, indented by its depth, and no
\* other line.
OneLinePerBookmark ==
    (pc = "djvu_done" /\ WrittenForEntries) =>
        /\ Len(SplitLines(result)) = Len(entries)
        /\ \A k \in 1..Len(entries) :
               /\ LStrip(SplitLines(result)[k]) = entries[k].title \o <<SP>> \o entries[k].page
               /\ Indentation(SplitLines(result)[k]) = 4 * entries[k].depth

\* C29: parse_djvused_outline terminates on every input: every iteration
\* of the loop advances the index by at least 1 and the loop runs only while
\* the index is before the end of the text, which it never passes by more
\* than 1; the level is never negative.
DjvuTerminates ==
    /\ [][DjvuStep => (djvu_i < Len(text) /\ djvu_i' >= djvu_i + 1)]_vars
    /\ [][(pc = "djvu_loop" /\ djvu_i >= Len(text)) => pc' = "djvu_done"]_vars
    /\ [](djvu_level >= 0)
    /\ [](djvu_i <= Len(text) + 1)

\* a ')' at level 0, then a '(' and a title that is not closed
DjvuTerminatesWitness ==
    /\ pc = "djvu_done"
    /\ text = <<")", "(", QUOTE, "A">>
    /\ djvu_level = 1
    /\ djvu_i = Len(text) + 1

----------------------------------------------------------------------------
(* Properties of adjust_page_numbers *)

\* the lines of the outline before and after the adjustment
OldLines == SplitNewline(Strip(text))
NewLines == SplitNewline(adjusted_text)

\* the line, whitespace at its end apart, ends with whitespace and digits
EndsWithPage(line) == EndsWithSpacedDigits(RStrip(line))

\* the digits at the end of the line, whitespace at its end apart
PageOf(line) == Suffix(RStrip(line), TrailRun(RStrip(line), Digits))

\* C30: whatever the amount and the direction, every line that ends with
\* whitespace and digits (whitespace after the digits is kept) has the page
\* max(1, old page + amount x direction) after the adjustment, the rest of
\* the line as it was; the other lines are not changed.
PagesAtLeastOne ==
    pc = "adjusted" =>
        /\ Len(NewLines) = Len(OldLines)
        /\ \A k \in 1..Len(OldLines) :
               IF EndsWithPage(OldLines[k])
               THEN /\ EndsWithPage(NewLines[k])
                    /\ ParseInt(PageOf(NewLines[k]))
                           = Max(1, ParseInt(PageOf(OldLines[k])) + adjustment)
                    /\ ParseInt(PageOf(NewLines[k])) >= 1
                    /\ PageOf(NewLines[k])[1] # "0"
                    /\ DropLast(RStrip(NewLines[k]), Len(PageOf(NewLines[k])))
                           = DropLast(RStrip(OldLines[k]), Len(PageOf(OldLines[k])))
                    /\ TrailRun(NewLines[k], Whitespace) = TrailRun(OldLines[k], Whitespace)
               ELSE NewLines[k] = OldLines[k]

\* page 12 lowered to 6, the space after it kept, and page 5 held at 1
PagesAtLeastOneWitness ==
    /\ pc = "adjusted"
    /\ adjustment = -6
    /\ text = <<"a", SP, SP, "1", "2", SP, NL, "a", SP, "5">>
    /\ adjusted_text = <<"a", SP, SP, "6", SP, NL, "a", SP, "1">>

====
